---------------------------- MODULE Spec2Model ----------------------------
(***************************************************************************)
(* Lead Scoring Service of the CRM backend (LeadScoringService in          *)
(* src/backend/src/app.js, lines 300-953) as a state machine.               *)
(*                                                                         *)
(* JavaScript values are encoded as follows.                               *)
(*   - undefined is the string UNDEFINED; enumerated strings are strings.  *)
(*   - a boolean field that may be absent is "true", "false" or UNDEFINED. *)
(*   - jobTitle is [type, chars]: the JS type of the value and, for a      *)
(*     string, its characters (so that toLowerCase and includes are        *)
(*     computed, not assumed).                                             *)
(*   - interactions is [type, items]: undefined, or an array of items;      *)
(*     the array batchCalculateScores returns is encoded the same way.     *)
(*   - a score is an integer; weights are in hundredths (0.25 is 25), so   *)
(*     a weighted total is in hundredths of a point.                       *)
(*   - a JS object is a record; a property that was never set is a field   *)
(*     the record does not have (see Get).                                 *)
(***************************************************************************)
EXTENDS Integers, Sequences, FiniteSets, TLC

VARIABLES
    mlServiceUrl,    \* this.mlServiceUrl (process.env.ML_SERVICE_URL)
    mlApiKey,        \* this.mlApiKey (process.env.ML_API_KEY)
    defaultWeights,  \* this.defaultWeights
    clock,           \* the wall clock, in days (what new Date() returns)
    lead,            \* the lead object the caller holds and passes to the service
    leads,           \* the array passed to batchCalculateScores
    op,              \* the service method the caller is in: "idle", "single", "rules", "batch", "insights"
    pc,              \* position of that call: "START", "ML_ATTEMPT", "END"
    path,            \* the blocks of the service the call has entered, in order
    mlRequests,      \* the axios.post requests the call has issued, in order
    mlReplies,       \* what the ML service answered to them, in order
    evalAt,          \* the clock value the rule-based computation read (NoTime if none)
    ret,             \* what the call gave its caller: [status, value]
    prev,            \* the direct rule-based call before this one: [valid, at, ret]
    calls,           \* the calculateLeadScore calls in flight together: id -> [lead, pc, reply, ret]
    ctl,             \* LeadController: the stored lead document and the request being served
    auth             \* AuthController: the stored user document and the requests in flight

vars == <<mlServiceUrl, mlApiKey, defaultWeights, clock, lead, leads, op, pc,
          path, mlRequests, mlReplies, evalAt, ret, prev, calls, ctl, auth>>

---------------------------------------------------------------------------
(* Bounds of the model *)

\* the clock runs over 0..MaxDay
MaxDay == 2
\* interactions arrays have at most MaxInteractions items
MaxInteractions == 2
\* a batch has at most MaxBatch leads
MaxBatch == 2

---------------------------------------------------------------------------
(* JavaScript values *)

UNDEFINED == "undefined"

\* Math.round of a value that is not a number and does not convert to one
NaN == 0 - 1000000

\* obj.f in JavaScript: undefined when the object has no such property
Get(obj, f) == IF f \in DOMAIN obj THEN obj[f] ELSE UNDEFINED

Min(a, b) == IF a < b THEN a ELSE b

Max(a, b) == IF a > b THEN a ELSE b

\* Math.max(0, Math.min(100, score))
Clamp(score) == Max(0, Min(100, score))

UpperCase == <<"A","B","C","D","E","F","G","H","I","J","K","L","M",
               "N","O","P","Q","R","S","T","U","V","W","X","Y","Z">>

LowerCase == <<"a","b","c","d","e","f","g","h","i","j","k","l","m",
               "n","o","p","q","r","s","t","u","v","w","x","y","z">>

\* String.prototype.toLowerCase, on a sequence of characters
toLowerCase(s) ==
    [i \in 1..Len(s) |->
        IF \E k \in 1..Len(UpperCase) : UpperCase[k] = s[i]
        THEN LowerCase[CHOOSE k \in 1..Len(UpperCase) : UpperCase[k] = s[i]]
        ELSE s[i]]

\* String.prototype.includes: sub occurs in s as a contiguous substring
includes(s, sub) ==
    \E i \in 1..(Len(s) - Len(sub) + 1) : SubSeq(s, i, i + Len(sub) - 1) = sub

Str(chars) == [type |-> "string", chars |-> chars]

NoTitle == [type |-> UNDEFINED, chars |-> <<>>]

\* a jobTitle that is a number: truthy, and without a toLowerCase method
NumberTitle == [type |-> "number", chars |-> <<>>]

kw_ceo == <<"c","e","o">>
kw_founder == <<"f","o","u","n","d","e","r">>
kw_president == <<"p","r","e","s","i","d","e","n","t">>
kw_director == <<"d","i","r","e","c","t","o","r">>
kw_manager == <<"m","a","n","a","g","e","r">>
kw_head == <<"h","e","a","d">>
kw_vp == <<"v","p">>
kw_vice_president == <<"v","i","c","e"," ","p","r","e","s","i","d","e","n","t">>

---------------------------------------------------------------------------
(* Lead records *)

NoCompany == [name |-> UNDEFINED, industry |-> UNDEFINED, size |-> UNDEFINED,
              revenue |-> UNDEFINED]

\* an array-valued field that is absent
NoInteractions == [type |-> UNDEFINED, items |-> <<>>]

Arr(items) == [type |-> "array", items |-> items]

NoDate == [type |-> UNDEFINED, day |-> 0]

DateOn(day) == [type |-> "date", day |-> day]

\* a lead with only its identity fields set: every optional field is absent.
\* (A lead without a company object and one whose company has no fields set
\* read the same through lead.company?.x, so company is always a record.)
MinimalLead ==
    [_id |-> "lead1", jobTitle |-> NoTitle, decisionMaker |-> UNDEFINED, company |-> NoCompany,
     source |-> UNDEFINED, timeline |-> UNDEFINED, budget |-> UNDEFINED,
     interactions |-> NoInteractions, priority |-> UNDEFINED,
     createdAt |-> NoDate, phone |-> UNDEFINED, notes |-> UNDEFINED,
     tags |-> NoInteractions]

---------------------------------------------------------------------------
(* Rule-based scorer *)

\* weights that do not sum to 1.0
ConstructorWeights_unbalanced ==
    [demographic |-> 25, behavioral |-> 30, firmographic |-> 25, engagement |-> 25]

\* the constructor's weights, in hundredths
ConstructorWeights ==
    [demographic |-> 25, behavioral |-> 30, firmographic |-> 25, engagement |-> 20]

\* truthiness of a value that is a string or undefined
Truthy(s) == s # UNDEFINED /\ s # ""

\* scoreDemographics throws a TypeError: title.toLowerCase is not a function
\* when jobTitle is truthy and not a string
scoreDemographicsThrows(l) == l.jobTitle.type = "number"

jobTitleBonus(l) ==
    IF l.jobTitle.type = "string" /\ Len(l.jobTitle.chars) > 0
    THEN LET title == toLowerCase(l.jobTitle.chars) IN
         IF includes(title, kw_ceo) \/ includes(title, kw_founder)
                \/ includes(title, kw_president) THEN 20
         ELSE IF includes(title, kw_director) \/ includes(title, kw_manager)
                \/ includes(title, kw_head) THEN 15
         ELSE IF includes(title, kw_vp) \/ includes(title, kw_vice_president) THEN 18
         ELSE 0
    ELSE 0

\* the two largest size bands given the same bonus
companySizeBonus_flatTop(l) ==
    IF Truthy(l.company.size)
    THEN CASE l.company.size = "1000+" -> 12
           [] l.company.size = "201-1000" -> 12
           [] l.company.size = "51-200" -> 8
           [] l.company.size = "11-50" -> 5
           [] OTHER -> 0
    ELSE 0

companySizeBonus(l) ==
    IF Truthy(l.company.size)
    THEN CASE l.company.size = "1000+" -> 15
           [] l.company.size = "201-1000" -> 12
           [] l.company.size = "51-200" -> 8
           [] l.company.size = "11-50" -> 5
           [] OTHER -> 0
    ELSE 0

scoreDemographics(l) ==
    Clamp(50 + jobTitleBonus(l)
             + (IF l.decisionMaker = "true" THEN 15 ELSE 0)
             + companySizeBonus(l))

sourceBonus(l) ==
    CASE l.source = "Referral" -> 20
      [] l.source = "Website" -> 15
      [] l.source = "Social Media" -> 10
      [] l.source = "Email Campaign" -> 8
      [] l.source = "Cold Call" -> 0 - 5
      [] OTHER -> 5

\* an unknown timeline left neutral instead of costing 5
timelineBonus_neutralDefault(l) ==
    CASE l.timeline = "Immediate" -> 25
      [] l.timeline = "1-3 months" -> 20
      [] l.timeline = "3-6 months" -> 10
      [] l.timeline = "6-12 months" -> 5
      [] OTHER -> 0

timelineBonus(l) ==
    CASE l.timeline = "Immediate" -> 25
      [] l.timeline = "1-3 months" -> 20
      [] l.timeline = "3-6 months" -> 10
      [] l.timeline = "6-12 months" -> 5
      [] OTHER -> 0 - 5

\* an unknown budget left neutral instead of costing 5
budgetBonus_neutralDefault(l) ==
    CASE l.budget = "$500K+" -> 25
      [] l.budget = "$100K-$500K" -> 20
      [] l.budget = "$50K-$100K" -> 15
      [] l.budget = "$10K-$50K" -> 10
      [] l.budget = "<$10K" -> 5
      [] OTHER -> 0

budgetBonus(l) ==
    CASE l.budget = "$500K+" -> 25
      [] l.budget = "$100K-$500K" -> 20
      [] l.budget = "$50K-$100K" -> 15
      [] l.budget = "$10K-$50K" -> 10
      [] l.budget = "<$10K" -> 5
      [] OTHER -> 0 - 5

scoreBehavior(l) == Clamp(50 + sourceBonus(l) + timelineBonus(l) + budgetBonus(l))

\* the default case of the switch taken for an absent industry too
industryBonus_absentAsOther(l) ==
    CASE l.company.industry = "Technology" -> 15
      [] l.company.industry = "Healthcare" -> 12
      [] l.company.industry = "Finance" -> 12
      [] l.company.industry = "Education" -> 8
      [] l.company.industry = "Manufacturing" -> 8
      [] OTHER -> 5

industryBonus(l) ==
    IF Truthy(l.company.industry)
    THEN CASE l.company.industry = "Technology" -> 15
           [] l.company.industry = "Healthcare" -> 12
           [] l.company.industry = "Finance" -> 12
           [] l.company.industry = "Education" -> 8
           [] l.company.industry = "Manufacturing" -> 8
           [] OTHER -> 5
    ELSE 0

revenueBonus(l) ==
    IF Truthy(l.company.revenue)
    THEN CASE l.company.revenue = "$200M+" -> 20
           [] l.company.revenue = "$50M-$200M" -> 15
           [] l.company.revenue = "$10M-$50M" -> 10
           [] l.company.revenue = "$1M-$10M" -> 5
           [] OTHER -> 0
    ELSE 0

scoreFirmographics(l) ==
    Clamp(50 + industryBonus(l) + revenueBonus(l)
             + (IF Truthy(l.company.name) THEN 5 ELSE 0))

\* the window of a recent interaction, in days
RecentDays == 30

\* interactions.filter(i => i.outcome === 'Positive').length
CountPositive(items) == Cardinality({i \in 1..Len(items) : items[i].outcome = "Positive"})

\* interactions.filter(i => new Date(i.date) >= thirtyDaysAgo).length
CountRecent(items, now) ==
    Cardinality({i \in 1..Len(items) : items[i].date >= now - RecentDays})

\* 3 points per interaction without the cap of 20
interactionsBonus_uncapped(l, now) ==
    IF l.interactions.type = "array" /\ Len(l.interactions.items) > 0
    THEN LET items == l.interactions.items
         IN  Len(items) * 3 + CountPositive(items) * 5 + CountRecent(items, now) * 3
    ELSE 0

interactionsBonus(l, now) ==
    IF l.interactions.type = "array" /\ Len(l.interactions.items) > 0
    THEN LET items == l.interactions.items
         IN  Min(20, Len(items) * 3) + CountPositive(items) * 5
                + CountRecent(items, now) * 3
    ELSE 0

priorityBonus(l) ==
    CASE l.priority = "Critical" -> 15
      [] l.priority = "High" -> 10
      [] l.priority = "Medium" -> 0
      [] l.priority = "Low" -> 0 - 5
      [] OTHER -> 0

scoreEngagement(l, now) == Clamp(50 + interactionsBonus(l, now) + priorityBonus(l))

Factor(name, weight, score, details) ==
    [name |-> name, weight |-> weight, score |-> score, details |-> details]

\* a function that returned v / that threw error e
Returned(v) == [status |-> "returned", value |-> v]

Raised(e) == [status |-> "raised", value |-> [error |-> e]]

\* a total kept from the call before instead of starting at 0
InitialTotal_kept ==
    IF op = "rules" /\ ret.status = "returned" THEN ret.value.value * 100 ELSE 0

\* let totalScore = 0
InitialTotal == 0

\* Math.floor in the place of Math.round
RoundHundredths_floor(t) == t \div 100

\* Math.round of a total in hundredths of a point
RoundHundredths(t) == (t + 50) \div 100

\* calculateScoreWithRules: the four factors pushed in order, the weighted total
\* clamped and rounded; an error of a sub-score is logged and rethrown
calculateScoreWithRules(l, weights, now) ==
    IF scoreDemographicsThrows(l) THEN Raised("TypeError")
    ELSE
    LET demographicScore == scoreDemographics(l)
        behavioralScore == scoreBehavior(l)
        firmographicScore == scoreFirmographics(l)
        engagementScore == scoreEngagement(l, now)
        factors ==
            << Factor("demographic", weights.demographic, demographicScore,
                      "Based on job title, company size, and industry"),
               Factor("behavioral", weights.behavioral, behavioralScore,
                      "Based on lead source, timeline, and budget"),
               Factor("firmographic", weights.firmographic, firmographicScore,
                      "Based on company information and industry"),
               Factor("engagement", weights.engagement, engagementScore,
                      "Based on interactions and response rates") >>
        totalScore == InitialTotal
                        + demographicScore * weights.demographic
                        + behavioralScore * weights.behavioral
                        + firmographicScore * weights.firmographic
                        + engagementScore * weights.engagement
    IN  Returned([value |-> RoundHundredths(Max(0, Min(100 * 100, totalScore))),
                  factors |-> factors,
                  method |-> "rule-based"])

---------------------------------------------------------------------------
(* Feature extractor *)

companySizeToNumeric(size) ==
    CASE size = "1-10" -> 5
      [] size = "11-50" -> 30
      [] size = "51-200" -> 125
      [] size = "201-1000" -> 600
      [] size = "1000+" -> 5000
      [] OTHER -> 0

sourceToScore(source) ==
    CASE source = "Referral" -> 90
      [] source = "Website" -> 75
      [] source = "Social Media" -> 60
      [] source = "Email Campaign" -> 55
      [] source = "Trade Show" -> 65
      [] source = "Advertisement" -> 45
      [] source = "Cold Call" -> 30
      [] source = "Partner" -> 70
      [] source = "Other" -> 40
      [] OTHER -> 40

\* the lookup tables of the four helpers below, with their keys
urgencyMap ==
    [k \in {"Immediate", "1-3 months", "3-6 months", "6-12 months", "12+ months",
            "Unknown"} |->
        CASE k = "Immediate" -> 100
          [] k = "1-3 months" -> 80
          [] k = "3-6 months" -> 60
          [] k = "6-12 months" -> 40
          [] k = "12+ months" -> 20
          [] k = "Unknown" -> 30]

budgetMap ==
    [k \in {"<$10K", "$10K-$50K", "$50K-$100K", "$100K-$500K", "$500K+", "Unknown"} |->
        CASE k = "<$10K" -> 5000
          [] k = "$10K-$50K" -> 30000
          [] k = "$50K-$100K" -> 75000
          [] k = "$100K-$500K" -> 300000
          [] k = "$500K+" -> 1000000
          [] k = "Unknown" -> 0]

revenueMap ==
    [k \in {"<$1M", "$1M-$10M", "$10M-$50M", "$50M-$200M", "$200M+"} |->
        CASE k = "<$1M" -> 500000
          [] k = "$1M-$10M" -> 5000000
          [] k = "$10M-$50M" -> 30000000
          [] k = "$50M-$200M" -> 125000000
          [] k = "$200M+" -> 500000000]

priorityMap ==
    [k \in {"Low", "Medium", "High", "Critical"} |->
        CASE k = "Low" -> 25
          [] k = "Medium" -> 50
          [] k = "High" -> 75
          [] k = "Critical" -> 100]

\* map[key] || dflt: undefined (no such key) and 0 both give the default
LookupOr(map, key, dflt) ==
    IF key \in DOMAIN map /\ map[key] # 0 THEN map[key] ELSE dflt

timelineToUrgency(timeline) == LookupOr(urgencyMap, timeline, 30)

budgetToNumeric(budget) == LookupOr(budgetMap, budget, 0)

industryToScore(industry) ==
    CASE industry = "Technology" -> 85
      [] industry = "Healthcare" -> 75
      [] industry = "Finance" -> 75
      [] industry = "Education" -> 60
      [] industry = "Manufacturing" -> 60
      [] industry = "Retail" -> 55
      [] industry = "Real Estate" -> 50
      [] industry = "Consulting" -> 70
      [] industry = "Media" -> 55
      [] industry = "Other" -> 40
      [] OTHER -> 40

revenueToNumeric(revenue) == LookupOr(revenueMap, revenue, 0)

\* a missing priority read as the lowest number instead of 50
priorityToNumeric_zeroDefault(priority) == LookupOr(priorityMap, priority, 0)

priorityToNumeric(priority) == LookupOr(priorityMap, priority, 50)

\* the clock counts whole days, so the floor of the difference is the difference
daysSinceCreation(createdAt, now) ==
    IF createdAt.type = UNDEFINED THEN 0 ELSE now - createdAt.day

\* a vector that leaves the engagement counts out when the lead has no
\* interactions field
extractFeatures_sparse(l, now) ==
    LET base ==
            [has_job_title |-> l.jobTitle.type = "number"
                                  \/ (l.jobTitle.type = "string" /\ Len(l.jobTitle.chars) > 0),
             is_decision_maker |-> l.decisionMaker = "true",
             company_size_numeric |-> companySizeToNumeric(l.company.size),
             source_score |-> sourceToScore(l.source),
             timeline_urgency |-> timelineToUrgency(l.timeline),
             budget_numeric |-> budgetToNumeric(l.budget),
             industry_score |-> industryToScore(l.company.industry),
             revenue_numeric |-> revenueToNumeric(l.company.revenue),
             has_company_name |-> Truthy(l.company.name),
             days_since_creation |-> daysSinceCreation(l.createdAt, now),
             priority_numeric |-> priorityToNumeric(l.priority),
             has_phone |-> Truthy(l.phone),
             has_notes |-> Truthy(l.notes),
             tag_count |-> Len(l.tags.items)]
        counts ==
            [interaction_count |-> Len(l.interactions.items),
             positive_interactions |-> CountPositive(l.interactions.items)]
    IN  IF l.interactions.type = UNDEFINED THEN base
        ELSE [f \in DOMAIN base \cup DOMAIN counts |->
                IF f \in DOMAIN base THEN base[f] ELSE counts[f]]

\* extractFeatures: no property read of it throws on the leads of this model
\* (!!lead.jobTitle is defined for a jobTitle of any type)
extractFeatures(l, now) ==
    [has_job_title |-> l.jobTitle.type = "number"
                          \/ (l.jobTitle.type = "string" /\ Len(l.jobTitle.chars) > 0),
     is_decision_maker |-> l.decisionMaker = "true",
     company_size_numeric |-> companySizeToNumeric(l.company.size),
     source_score |-> sourceToScore(l.source),
     timeline_urgency |-> timelineToUrgency(l.timeline),
     budget_numeric |-> budgetToNumeric(l.budget),
     industry_score |-> industryToScore(l.company.industry),
     revenue_numeric |-> revenueToNumeric(l.company.revenue),
     has_company_name |-> Truthy(l.company.name),
     interaction_count |-> Len(l.interactions.items),
     positive_interactions |-> CountPositive(l.interactions.items),
     days_since_creation |-> daysSinceCreation(l.createdAt, now),
     priority_numeric |-> priorityToNumeric(l.priority),
     has_phone |-> Truthy(l.phone),
     has_notes |-> Truthy(l.notes),
     tag_count |-> Len(l.tags.items)]

---------------------------------------------------------------------------
(* The leads of the model *)

T_CEO == Str(<<"C","E","O">>)
T_Founder == Str(<<"C","o","-","F","o","u","n","d","e","r">>)
T_VP == Str(<<"V","P"," ","S","a","l","e","s">>)
T_VicePresident == Str(<<"V","i","c","e"," ","P","r","e","s","i","d","e","n","t">>)
T_Director == Str(<<"D","i","r","e","c","t","o","r">>)
T_VPDirector == Str(<<"V","P"," ","&"," ","D","i","r","e","c","t","o","r">>)
T_Engineer == Str(<<"E","n","g","i","n","e","e","r">>)
T_Empty == Str(<<>>)

JobTitles == {T_CEO, T_Founder, T_VP, T_VicePresident, T_Director, T_VPDirector,
              T_Engineer, T_Empty, NumberTitle}

\* an interaction dated exactly RecentDays before day 0 is recent on day 0 and
\* no longer recent on day 1
InteractionItems ==
    [outcome : {"Positive", "No Response"}, date : {0 - RecentDays, 1 - RecentDays}]

InteractionArrays ==
    UNION { [1..n -> InteractionItems] : n \in 0..MaxInteractions }

\* leads that differ from the minimal lead in one field
OneFieldLeads ==
    {[MinimalLead EXCEPT !.jobTitle = t] : t \in JobTitles}
    \cup {[MinimalLead EXCEPT !.decisionMaker = d] : d \in {"true", "false"}}
    \cup {[MinimalLead EXCEPT !.company.size = x] :
            x \in {"1-10", "11-50", "51-200", "201-1000", "1000+"}}
    \cup {[MinimalLead EXCEPT !.source = x] :
            x \in {"Referral", "Website", "Social Media", "Email Campaign",
                   "Cold Call", "Trade Show"}}
    \cup {[MinimalLead EXCEPT !.timeline = x] :
            x \in {"Immediate", "1-3 months", "3-6 months", "6-12 months",
                   "12+ months", "Unknown"}}
    \cup {[MinimalLead EXCEPT !.budget = x] :
            x \in {"$500K+", "$100K-$500K", "$50K-$100K", "$10K-$50K", "<$10K",
                   "Unknown"}}
    \cup {[MinimalLead EXCEPT !.company.industry = x] :
            x \in {"Technology", "Healthcare", "Finance", "Education",
                   "Manufacturing", "Retail"}}
    \cup {[MinimalLead EXCEPT !.company.revenue = x] :
            x \in {"$200M+", "$50M-$200M", "$10M-$50M", "$1M-$10M", "<$1M"}}
    \cup {[MinimalLead EXCEPT !.company.name = x] : x \in {"", "Acme"}}
    \cup {[MinimalLead EXCEPT !.priority = x] :
            x \in {"Critical", "High", "Medium", "Low"}}
    \cup {[MinimalLead EXCEPT !.interactions = Arr(a)] : a \in InteractionArrays}

\* a lead with every bonus at its highest
HotLead ==
    [MinimalLead EXCEPT
        !._id = "lead2", !.jobTitle = T_CEO, !.decisionMaker = "true",
        !.company = [name |-> "Acme", industry |-> "Technology", size |-> "1000+",
                     revenue |-> "$200M+"],
        !.source = "Referral", !.timeline = "Immediate", !.budget = "$500K+",
        !.interactions = Arr(<<[outcome |-> "Positive", date |-> 0]>>),
        !.priority = "Critical", !.createdAt = DateOn(0 - RecentDays),
        !.phone = "15551234567", !.notes = "met at the trade show",
        !.tags = Arr(<<"enterprise">>)]

\* a lead with every bonus at its lowest
ColdLead ==
    [MinimalLead EXCEPT
        !._id = "lead3", !.source = "Cold Call", !.timeline = "Unknown",
        !.budget = "Unknown", !.priority = "Low", !.interactions = Arr(<<>>)]

Leads == {MinimalLead, HotLead, ColdLead} \cup OneFieldLeads

\* the arrays a caller passes to batchCalculateScores: the lead it holds and
\* the hot lead, in any order and number up to MaxBatch
Batches(l) == UNION { [1..n -> {l, HotLead}] : n \in 0..MaxBatch }

---------------------------------------------------------------------------
(* The ML service, as axios sees it *)

\* a JSON value in the score field: a number (in tenths), a string that is not
\* numeric, or null
NumScore(tenths) == [type |-> "number", tenths |-> tenths]

StringScore == [type |-> "string", tenths |-> 0]

NullScore == [type |-> "null", tenths |-> 0]

\* Math.round(x): the nearest integer, halves rounded up; 0 for null; NaN for a
\* string that is not numeric
MathRound(x) ==
    CASE x.type = "number" -> (x.tenths + 5) \div 10
      [] x.type = "null" -> 0
      [] OTHER -> NaN

MLFactors == <<[name |-> "model", weight |-> 100, score |-> 87]>>

ScoreValues ==
    {NumScore(0 - 10), NumScore(0), NumScore(425), NumScore(874), NumScore(1000),
     NumScore(1500), StringScore, NullScore}

\* the bodies of a 2xx answer of /predict/lead-score
ScoreBodies ==
    {[score |-> x] : x \in ScoreValues}
    \cup {[score |-> x, factors |-> MLFactors, model_version |-> "v2",
           confidence |-> "0.93"] : x \in ScoreValues}
    \cup {[message |-> "no prediction"],
          [factors |-> MLFactors, model_version |-> "v2"]}

\* what axios.post settles with: a network error or a timeout (no response), or
\* an HTTP response with a status and a body (data is "" for an empty body)
NetworkError == [kind |-> "network", status |-> 0, data |-> [type |-> "empty"]]

Timeout == [kind |-> "timeout", status |-> 0, data |-> [type |-> "empty"]]

Http(status, body) ==
    [kind |-> "http", status |-> status, data |-> [type |-> "object", body |-> body]]

HttpEmpty(status) == [kind |-> "http", status |-> status, data |-> [type |-> "empty"]]

\* validateStatus accepting every status
Rejects_anyStatus(r) == r.kind # "http"

\* axios rejects the promise unless validateStatus holds: 200 <= status < 300
Rejects(r) == r.kind # "http" \/ ~(r.status >= 200 /\ r.status < 300)

ScoreReplies ==
    {NetworkError, Timeout, HttpEmpty(500), HttpEmpty(200), HttpEmpty(204),
     Http(500, [score |-> NumScore(874)])}
    \cup {Http(200, b) : b \in ScoreBodies}

\* the bodies of a 2xx answer of /predict/batch-lead-score to a request for n
\* leads: results for each lead, for one lead fewer or more, or no results
BatchItem(i) == [value |-> 80 + i, factors |-> MLFactors, method |-> "ml"]

BatchBodies(n) ==
    {[results |-> [i \in 1..k |-> BatchItem(i)]] :
        k \in {m \in {n - 1, n, n + 1} : m >= 0}}
    \cup {[message |-> "no prediction"]}

BatchReplies(n) ==
    {NetworkError, Timeout, HttpEmpty(500), HttpEmpty(200)}
    \cup {Http(200, b) : b \in BatchBodies(n)}

---------------------------------------------------------------------------
(* calculateLeadScore *)

\* a check of the credential alone
MLConfigured_keyOnly == Truthy(mlApiKey)

\* this.mlServiceUrl && this.mlApiKey
MLConfigured == Truthy(mlServiceUrl) /\ Truthy(mlApiKey)

\* the schema's default score instead of 50
DefaultResult_zero ==
    [value |-> 0, factors |-> <<[name |-> "default", weight |-> 100, score |-> 0]>>]

\* the object calculateLeadScore returns from its catch block
DefaultResult ==
    [value |-> 50, factors |-> <<[name |-> "default", weight |-> 100, score |-> 50]>>]

\* no catch block: the error reaches the caller
CatchToDefault_rethrow(c) == c

\* calculateLeadScore's try/catch around the rule-based computation it awaits
\* (directly, or through calculateScoreWithML's fallback): an error becomes
\* the default result
CatchToDefault(c) == IF c.status = "raised" THEN Returned(DefaultResult) ELSE c

\* a request posted without a timeout (axios default 0: wait for ever)
ScoreRequest_noTimeout(l, now) ==
    [url |-> "/predict/lead-score", features |-> extractFeatures(l, now),
     lead_id |-> l._id, timeout |-> 0]

\* the request calculateScoreWithML posts
ScoreRequest(l, now) ==
    [url |-> "/predict/lead-score", features |-> extractFeatures(l, now),
     lead_id |-> l._id, timeout |-> 10000]

\* the outcomes axios can settle request req with: the timeout error only when
\* the request has a timeout
CanSettle(req, r) == r.kind = "timeout" => req.timeout > 0

\* the response passes the check of line 366
HasScore(r) ==
    ~Rejects(r) /\ r.data.type = "object" /\ "score" \in DOMAIN r.data.body

\* the object calculateScoreWithML returns for a response that has a score
MLResult(body) ==
    [value |-> MathRound(body.score),
     factors |-> IF "factors" \in DOMAIN body THEN body.factors ELSE <<>>,
     model_version |-> Get(body, "model_version"),
     confidence |-> Get(body, "confidence")]

\* calculateScoreWithML after its request settled with r: the ML result, or the
\* rule-based computation (lines 376 and 380), whose error it lets through
AfterScoreReply(r, l, weights, now) ==
    IF HasScore(r) THEN Returned(MLResult(r.data.body))
    ELSE calculateScoreWithRules(l, weights, now)

NoTime == 0 - 1

\* login and refreshToken requests in flight together
NReq == 2

\* the lock lasts 2 hours, in seconds
LockSeconds == 7200

\* the failed attempt at which the account is locked
MaxLoginAttempts == 5

\* addRefreshToken keeps the last 5 tokens
KeepTokens == 5

Pending == [status |-> "pending", value |-> [error |-> "none"]]

\* no calls in flight together
NoCalls == <<>>

\* a stored refresh token: the JWT signed in second iat. (jwt.sign of the same
\* payload in the same second gives the same string, so iat names the token.)
\* A loaded entry has no token: the schema marks it select: false
Token(iat) == [sel |-> TRUE, iat |-> iat]

\* a new user, and no authentication request in flight
NoAuth ==
    [user |-> [loginAttempts |-> 0, lockUntil |-> NoTime, refreshTokens |-> <<>>, v |-> 0],
     reqs |-> <<>>]

\* the lead a query loads: the schema has no jobTitle path, and its defaults
\* fill decisionMaker, priority, the arrays and createdAt
AsDocument(l) ==
    [l EXCEPT
        !.jobTitle = NoTitle,
        !.decisionMaker = IF @ = UNDEFINED THEN "false" ELSE @,
        !.priority = IF @ = UNDEFINED THEN "Medium" ELSE @,
        !.interactions = IF @.type = UNDEFINED THEN Arr(<<>>) ELSE @,
        !.tags = IF @.type = UNDEFINED THEN Arr(<<>>) ELSE @,
        !.createdAt = IF @.type = UNDEFINED THEN DateOn(0) ELSE @]

\* no request served yet: the stored document d
Stored(d) ==
    [pc |-> "idle", op |-> "none", doc |-> d, body |-> [none |-> "none"],
     before |-> d.score, computed |-> Pending]

NoController ==
    Stored([status |-> "New", score |-> [value |-> 0, factors |-> <<>>],
            lead |-> AsDocument(MinimalLead)])

NoPrev == [valid |-> FALSE, at |-> NoTime, ret |-> Pending]

\* the rule-based computation entered a second time after it raised
RulesPath_retry(c) ==
    IF c.status = "raised" THEN <<"RULES", "RULES", "DEFAULT", "END">>
    ELSE <<"RULES", "END">>

\* the blocks a call passes once it has the outcome c of the rule-based computation
RulesPath(c) ==
    IF c.status = "raised" THEN <<"RULES", "DEFAULT", "END">> ELSE <<"RULES", "END">>

\* the caller invokes calculateLeadScore(lead): the ML request is posted, or the
\* rule-based computation runs to its end
CalculateLeadScore ==
    /\ op = "idle"
    /\ op' = "single"
    /\ IF MLConfigured
       THEN /\ pc' = "ML_ATTEMPT"
            /\ path' = <<"START", "ML_ATTEMPT">>
            /\ mlRequests' = <<ScoreRequest(lead, clock)>>
            /\ UNCHANGED <<evalAt, ret>>
       ELSE LET c == calculateScoreWithRules(lead, defaultWeights, clock) IN
            /\ pc' = "END"
            /\ path' = <<"START">> \o RulesPath(c)
            /\ evalAt' = clock
            /\ ret' = CatchToDefault(c)
            /\ UNCHANGED mlRequests
    /\ UNCHANGED <<calls, ctl, auth, mlServiceUrl, mlApiKey, defaultWeights, clock, lead, leads,
                   mlReplies, prev>>

\* the request of calculateScoreWithML settles with r
ScoreReply(r) ==
    /\ op = "single"
    /\ pc = "ML_ATTEMPT"
    /\ CanSettle(mlRequests[1], r)
    /\ mlReplies' = Append(mlReplies, r)
    /\ pc' = "END"
    /\ LET c == AfterScoreReply(r, lead, defaultWeights, clock) IN
       /\ ret' = CatchToDefault(c)
       /\ IF HasScore(r)
          THEN path' = Append(path, "END") /\ UNCHANGED evalAt
          ELSE path' = path \o RulesPath(c) /\ evalAt' = clock
    /\ UNCHANGED <<calls, ctl, auth, mlServiceUrl, mlApiKey, defaultWeights, clock, lead, leads, op,
                   mlRequests, prev>>

---------------------------------------------------------------------------
(* calculateScoreWithRules, called by the caller itself *)

\* the caller invokes calculateScoreWithRules(lead), a first time or again
\* right after the call before
CallScoreWithRules ==
    /\ op = "idle" \/ (op = "rules" /\ pc = "END")
    /\ op' = "rules"
    /\ pc' = "END"
    /\ path' = <<"RULES", "END">>
    /\ evalAt' = clock
    /\ ret' = calculateScoreWithRules(lead, defaultWeights, clock)
    /\ prev' = IF op = "rules" THEN [valid |-> TRUE, at |-> evalAt, ret |-> ret]
               ELSE NoPrev
    /\ UNCHANGED <<calls, ctl, auth, mlServiceUrl, mlApiKey, defaultWeights, clock, lead, leads,
                   mlRequests, mlReplies>>

---------------------------------------------------------------------------
(* batchCalculateScores *)

\* the request batchCalculateWithML posts
BatchRequest(ls, now) ==
    [url |-> "/predict/batch-lead-score",
     leads |-> [i \in 1..Len(ls) |->
                    [lead_id |-> ls[i]._id, features |-> extractFeatures(ls[i], now)]],
     timeout |-> 30000]

\* { leadId: lead._id, ...score }
WithLeadId(l, score) ==
    [f \in {"leadId"} \cup DOMAIN score |-> IF f = "leadId" THEN l._id ELSE score[f]]

\* the loop of batchCalculateScores: each lead scored by the rules in turn; the
\* first error ends the loop and is rethrown by the catch block of line 825
BatchWithRules(ls, weights, now) ==
    LET c(i) == calculateScoreWithRules(ls[i], weights, now) IN
    IF \E i \in 1..Len(ls) : c(i).status = "raised"
    THEN c(CHOOSE i \in 1..Len(ls) :
                /\ c(i).status = "raised"
                /\ \A j \in 1..(i - 1) : c(j).status # "raised")
    ELSE Returned(Arr([i \in 1..Len(ls) |-> WithLeadId(ls[i], c(i).value)]))

\* batchCalculateWithML after its request settled with r: response.data.results
\* or []; a rejection is logged and rethrown (line 859), and rethrown again by
\* batchCalculateScores (line 827)
AfterBatchReply(r) ==
    IF Rejects(r) THEN Raised("AxiosError")
    ELSE IF r.data.type = "object" /\ "results" \in DOMAIN r.data.body
         THEN Returned(Arr(r.data.body.results))
         ELSE Returned(Arr(<<>>))

\* the caller invokes batchCalculateScores(ls)
BatchCalculateScores(ls) ==
    /\ op = "idle"
    /\ op' = "batch"
    /\ leads' = ls
    /\ IF MLConfigured
       THEN /\ pc' = "ML_ATTEMPT"
            /\ path' = <<"START", "ML_ATTEMPT">>
            /\ mlRequests' = <<BatchRequest(ls, clock)>>
            /\ UNCHANGED <<evalAt, ret>>
       ELSE /\ pc' = "END"
            /\ path' = <<"START", "RULES", "END">>
            /\ evalAt' = clock
            /\ ret' = BatchWithRules(ls, defaultWeights, clock)
            /\ UNCHANGED mlRequests
    /\ UNCHANGED <<calls, ctl, auth, mlServiceUrl, mlApiKey, defaultWeights, clock, lead, mlReplies,
                   prev>>

\* the request of batchCalculateWithML settles with r
BatchReply(r) ==
    /\ op = "batch"
    /\ pc = "ML_ATTEMPT"
    /\ CanSettle(mlRequests[1], r)
    /\ mlReplies' = Append(mlReplies, r)
    /\ pc' = "END"
    /\ path' = Append(path, "END")
    /\ ret' = AfterBatchReply(r)
    /\ UNCHANGED <<calls, ctl, auth, mlServiceUrl, mlApiKey, defaultWeights, clock, lead, leads, op,
                   mlRequests, evalAt, prev>>

---------------------------------------------------------------------------
(* The caller and the clock *)

\* the caller has the outcome of its call; nothing of the call is kept
Return ==
    /\ op # "idle"
    /\ pc = "END"
    /\ op' = "idle"
    /\ pc' = "START"
    /\ path' = <<>>
    /\ leads' = <<>>
    /\ mlRequests' = <<>>
    /\ mlReplies' = <<>>
    /\ evalAt' = NoTime
    /\ ret' = Pending
    /\ prev' = NoPrev
    /\ UNCHANGED <<calls, ctl, auth, mlServiceUrl, mlApiKey, defaultWeights, clock, lead>>

\* a day passes
Tick ==
    /\ clock < MaxDay
    /\ clock' = clock + 1
    /\ UNCHANGED <<calls, ctl, auth, mlServiceUrl, mlApiKey, defaultWeights, lead, leads, op, pc,
                   path, mlRequests, mlReplies, evalAt, ret, prev>>

Init ==
    /\ mlServiceUrl \in {UNDEFINED, "http://ml.internal:8000"}
    /\ mlApiKey \in {UNDEFINED, "secret"}
    /\ defaultWeights = ConstructorWeights
    /\ clock = 0
    /\ lead \in Leads
    /\ leads = <<>>
    /\ op = "idle"
    /\ pc = "START"
    /\ path = <<>>
    /\ mlRequests = <<>>
    /\ mlReplies = <<>>
    /\ evalAt = NoTime
    /\ ret = Pending
    /\ prev = NoPrev
    /\ calls = NoCalls
    /\ ctl = NoController
    /\ auth = NoAuth

Next ==
    \/ CalculateLeadScore
    \/ \E r \in ScoreReplies : ScoreReply(r)
    \/ CallScoreWithRules
    \/ \E ls \in Batches(lead) : BatchCalculateScores(ls)
    \/ \E r \in BatchReplies(Len(leads)) : BatchReply(r)
    \/ Return
    \/ Tick

Spec == Init /\ [][Next]_vars

---------------------------------------------------------------------------
(* Insight generator *)

\* a grade one threshold too strict: > where the code has >=
getScoreGrade_strict(score) ==
    IF score > 90 THEN "A+"
    ELSE IF score > 80 THEN "A"
    ELSE IF score > 70 THEN "B"
    ELSE IF score > 60 THEN "C"
    ELSE IF score > 50 THEN "D"
    ELSE "F"

\* getScoreGrade (a comparison with NaN is false, as with the NaN of this module)
getScoreGrade(score) ==
    IF score >= 90 THEN "A+"
    ELSE IF score >= 80 THEN "A"
    ELSE IF score >= 70 THEN "B"
    ELSE IF score >= 60 THEN "C"
    ELSE IF score >= 50 THEN "D"
    ELSE "F"

Recommendation(type, message, action) ==
    [type |-> type, message |-> message, action |-> action]

RecPriority ==
    Recommendation("priority", "High-value lead - prioritize immediate contact",
                   "Schedule demo or meeting within 24 hours")

RecDecisionMaker ==
    Recommendation("qualification", "Identify decision maker",
                   "Ask about decision-making process and key stakeholders")

RecTimeline ==
    Recommendation("qualification", "Clarify timeline",
                   "Discover when they plan to make a decision")

RecBudget ==
    Recommendation("qualification", "Understand budget range",
                   "Discuss budget parameters and expectations")

RecFirstContact ==
    Recommendation("engagement", "No interactions recorded",
                   "Initiate first contact and log interaction")

\* recommendations.push(rec) when the condition holds
PushIf(cond, rec) == IF cond THEN <<rec>> ELSE <<>>

\* generateRecommendations: lead.interactions?.length === 0 holds for an empty
\* array only (undefined === 0 is false)
generateRecommendations(l, score) ==
    PushIf(score.value >= 80, RecPriority)
    \o PushIf(l.decisionMaker # "true", RecDecisionMaker)
    \o PushIf(~Truthy(l.timeline) \/ l.timeline = "Unknown", RecTimeline)
    \o PushIf(~Truthy(l.budget) \/ l.budget = "Unknown", RecBudget)
    \o PushIf(l.interactions.type = "array" /\ Len(l.interactions.items) = 0,
              RecFirstContact)

\* getScoreInsights once calculateLeadScore gave c (which never raises)
InsightsOf(l, c) ==
    IF c.status = "raised" THEN c
    ELSE Returned([score |-> c.value.value,
                   grade |-> getScoreGrade(c.value.value),
                   factors |-> c.value.factors,
                   recommendations |-> generateRecommendations(l, c.value)])

\* the caller invokes getScoreInsights(lead), which awaits calculateLeadScore(lead)
GetScoreInsights ==
    /\ op = "idle"
    /\ op' = "insights"
    /\ IF MLConfigured
       THEN /\ pc' = "ML_ATTEMPT"
            /\ path' = <<"START", "ML_ATTEMPT">>
            /\ mlRequests' = <<ScoreRequest(lead, clock)>>
            /\ UNCHANGED <<evalAt, ret>>
       ELSE LET c == calculateScoreWithRules(lead, defaultWeights, clock) IN
            /\ pc' = "END"
            /\ path' = <<"START">> \o RulesPath(c)
            /\ evalAt' = clock
            /\ ret' = InsightsOf(lead, CatchToDefault(c))
            /\ UNCHANGED mlRequests
    /\ UNCHANGED <<calls, ctl, auth, mlServiceUrl, mlApiKey, defaultWeights, clock, lead, leads,
                   mlReplies, prev>>

\* the request posted for getScoreInsights settles with r
InsightsReply(r) ==
    /\ op = "insights"
    /\ pc = "ML_ATTEMPT"
    /\ CanSettle(mlRequests[1], r)
    /\ mlReplies' = Append(mlReplies, r)
    /\ pc' = "END"
    /\ LET c == AfterScoreReply(r, lead, defaultWeights, clock) IN
       /\ ret' = InsightsOf(lead, CatchToDefault(c))
       /\ IF HasScore(r)
          THEN path' = Append(path, "END") /\ UNCHANGED evalAt
          ELSE path' = path \o RulesPath(c) /\ evalAt' = clock
    /\ UNCHANGED <<calls, ctl, auth, mlServiceUrl, mlApiKey, defaultWeights, clock, lead, leads, op,
                   mlRequests, prev>>

\* leads over the fields the recommendations read, and the hot lead
InsightLeads ==
    {[MinimalLead EXCEPT !.decisionMaker = d, !.timeline = t, !.budget = b,
                         !.interactions = i] :
        d \in {UNDEFINED, "true", "false"},
        t \in {UNDEFINED, "Unknown", "Immediate"},
        b \in {UNDEFINED, "Unknown", "$500K+"},
        i \in {NoInteractions, Arr(<<>>),
               Arr(<<[outcome |-> "Positive", date |-> 0]>>)}}
    \cup {HotLead}

\* the ML service answering every whole score from -1 to 101, or failing
InsightReplies ==
    {Timeout, Http(200, [message |-> "no prediction"])}
    \cup {Http(200, [score |-> NumScore(10 * k)]) : k \in (0 - 1)..101}

InitInsights ==
    /\ \/ mlServiceUrl = UNDEFINED /\ mlApiKey = UNDEFINED
       \/ mlServiceUrl = "http://ml.internal:8000" /\ mlApiKey = "secret"
    /\ defaultWeights = ConstructorWeights
    /\ clock = 0
    /\ lead \in InsightLeads
    /\ leads = <<>>
    /\ op = "idle"
    /\ pc = "START"
    /\ path = <<>>
    /\ mlRequests = <<>>
    /\ mlReplies = <<>>
    /\ evalAt = NoTime
    /\ ret = Pending
    /\ prev = NoPrev
    /\ calls = NoCalls
    /\ ctl = NoController
    /\ auth = NoAuth

NextInsights ==
    \/ GetScoreInsights
    \/ \E r \in InsightReplies : InsightsReply(r)
    \/ Return

SpecInsights == InitInsights /\ [][NextInsights]_vars

---------------------------------------------------------------------------
(* Calls against an ML service that may never answer *)

\* the empty lead, the hot lead and a lead on which the rules raise
LiveLeads == {MinimalLead, HotLead, [MinimalLead EXCEPT !.jobTitle = NumberTitle]}

InitLive ==
    /\ mlServiceUrl \in {UNDEFINED, "http://ml.internal:8000"}
    /\ mlApiKey \in {UNDEFINED, "secret"}
    /\ defaultWeights = ConstructorWeights
    /\ clock = 0
    /\ lead \in LiveLeads
    /\ leads = <<>>
    /\ op = "idle"
    /\ pc = "START"
    /\ path = <<>>
    /\ mlRequests = <<>>
    /\ mlReplies = <<>>
    /\ evalAt = NoTime
    /\ ret = Pending
    /\ prev = NoPrev
    /\ calls = NoCalls
    /\ ctl = NoController
    /\ auth = NoAuth

NextLive ==
    \/ CalculateLeadScore
    \/ \E r \in ScoreReplies : ScoreReply(r)
    \/ \E ls \in Batches(lead) : BatchCalculateScores(ls)
    \/ \E r \in BatchReplies(Len(leads)) : BatchReply(r)
    \/ Return

\* the service is free never to answer; the one step that is sure to come is
\* the timeout of a pending request that was posted with one
LiveSpec ==
    /\ InitLive /\ [][NextLive]_vars
    /\ WF_vars(ScoreReply(Timeout))
    /\ WF_vars(BatchReply(Timeout))

---------------------------------------------------------------------------
(* Concurrent calculateLeadScore calls on the one exported instance *)

NCalls == 2

\* a call that has not started, for lead l
FreshCall(l) == [lead |-> l, pc |-> "START", reply |-> NetworkError, ret |-> Pending]

ConcLeads == {MinimalLead, HotLead, [MinimalLead EXCEPT !.jobTitle = NumberTitle]}

ConcReplies ==
    {Timeout, Http(200, [score |-> NumScore(874)]), Http(200, [message |-> "no prediction"])}

\* a scoring call that tunes the instance's weights for its lead
ConcStart_tuning(i) ==
    /\ calls[i].pc = "START"
    /\ defaultWeights' = IF calls[i].lead = HotLead THEN ConstructorWeights_unbalanced
                         ELSE defaultWeights
    /\ IF MLConfigured
       THEN calls' = [calls EXCEPT ![i].pc = "ML_ATTEMPT"]
       ELSE calls' = [calls EXCEPT
                ![i].pc = "END",
                ![i].ret = CatchToDefault(
                    calculateScoreWithRules(calls[i].lead, defaultWeights', clock))]
    /\ UNCHANGED <<ctl, auth, mlServiceUrl, mlApiKey, clock, lead, leads, op, pc, path,
                   mlRequests, mlReplies, evalAt, ret, prev>>

\* call i enters calculateLeadScore and runs to its first await (the ML
\* request) or, unconfigured, to its end; its lead and its locals are its own
ConcStart(i) ==
    /\ calls[i].pc = "START"
    /\ IF MLConfigured
       THEN calls' = [calls EXCEPT ![i].pc = "ML_ATTEMPT"]
       ELSE calls' = [calls EXCEPT
                ![i].pc = "END",
                ![i].ret = CatchToDefault(
                    calculateScoreWithRules(calls[i].lead, defaultWeights, clock))]
    /\ UNCHANGED <<ctl, auth, mlServiceUrl, mlApiKey, defaultWeights, clock, lead, leads, op,
                   pc, path, mlRequests, mlReplies, evalAt, ret, prev>>

\* the request of call i settles with r and the call runs to its end
ConcReply(i, r) ==
    /\ calls[i].pc = "ML_ATTEMPT"
    /\ CanSettle(ScoreRequest(calls[i].lead, clock), r)
    /\ calls' = [calls EXCEPT
            ![i].pc = "END",
            ![i].reply = r,
            ![i].ret = CatchToDefault(
                AfterScoreReply(r, calls[i].lead, defaultWeights, clock))]
    /\ UNCHANGED <<ctl, auth, mlServiceUrl, mlApiKey, defaultWeights, clock, lead, leads, op,
                   pc, path, mlRequests, mlReplies, evalAt, ret, prev>>

InitConc ==
    /\ mlServiceUrl \in {UNDEFINED, "http://ml.internal:8000"}
    /\ mlApiKey = "secret"
    /\ defaultWeights = ConstructorWeights
    /\ clock = 0
    /\ lead = MinimalLead
    /\ leads = <<>>
    /\ op = "idle"
    /\ pc = "START"
    /\ path = <<>>
    /\ mlRequests = <<>>
    /\ mlReplies = <<>>
    /\ evalAt = NoTime
    /\ ret = Pending
    /\ prev = NoPrev
    /\ calls \in [1..NCalls -> {FreshCall(l) : l \in ConcLeads}]
    /\ ctl = NoController
    /\ auth = NoAuth

NextConc ==
    \/ \E i \in 1..NCalls : ConcStart(i)
    \/ \E i \in 1..NCalls : \E r \in ConcReplies : ConcReply(i, r)

SpecConc == InitConc /\ [][NextConc]_vars

---------------------------------------------------------------------------
(* The rule-based scorer over the fields each sub-score reads *)

MaxEngaged == 7

\* n interactions, the first p of them Positive, the last r of them dated
\* RecentDays before day 0 (recent on day 0 only), the others a day earlier
EngagedItems(n, p, r) ==
    [i \in 1..n |->
        [outcome |-> IF i <= p THEN "Positive" ELSE "Negative",
         date |-> IF i > n - r THEN 0 - RecentDays ELSE 0 - RecentDays - 1]]

\* leads that vary the fields of one sub-score together
RuleLeads ==
    {[MinimalLead EXCEPT !.interactions = Arr(EngagedItems(n, p, r)), !.priority = y] :
        n \in 0..MaxEngaged, p \in {0, 1, MaxEngaged}, r \in {0, 1, MaxEngaged},
        y \in {UNDEFINED, "Critical", "High", "Medium", "Low"}}
    \cup {[MinimalLead EXCEPT !.priority = y] :
            y \in {UNDEFINED, "Critical", "High", "Medium", "Low", "Urgent"}}
    \cup {[MinimalLead EXCEPT !.source = s, !.timeline = t, !.budget = b] :
            s \in {UNDEFINED, "Referral", "Website", "Social Media", "Email Campaign",
                   "Cold Call", "Trade Show"},
            t \in {UNDEFINED, "Immediate", "1-3 months", "3-6 months", "6-12 months",
                   "12+ months", "Unknown"},
            b \in {UNDEFINED, "$500K+", "$100K-$500K", "$50K-$100K", "$10K-$50K",
                   "<$10K", "Unknown"}}
    \cup {[MinimalLead EXCEPT !.jobTitle = t, !.decisionMaker = d, !.company.size = x] :
            t \in JobTitles \cup {NoTitle},
            d \in {UNDEFINED, "true", "false"},
            x \in {UNDEFINED, "1-10", "11-50", "51-200", "201-1000", "1000+", "10000+"}}
    \cup {[MinimalLead EXCEPT !.company.industry = i, !.company.revenue = v,
                              !.company.name = m] :
            i \in {UNDEFINED, "Technology", "Healthcare", "Finance", "Education",
                   "Manufacturing", "Retail"},
            v \in {UNDEFINED, "$200M+", "$50M-$200M", "$10M-$50M", "$1M-$10M", "<$1M"},
            m \in {UNDEFINED, "", "Acme"}}

InitRules ==
    /\ mlServiceUrl = UNDEFINED
    /\ mlApiKey = UNDEFINED
    /\ defaultWeights = ConstructorWeights
    /\ clock = 0
    /\ lead \in RuleLeads
    /\ leads = <<>>
    /\ op = "idle"
    /\ pc = "START"
    /\ path = <<>>
    /\ mlRequests = <<>>
    /\ mlReplies = <<>>
    /\ evalAt = NoTime
    /\ ret = Pending
    /\ prev = NoPrev
    /\ calls = NoCalls
    /\ ctl = NoController
    /\ auth = NoAuth

NextRules ==
    \/ CallScoreWithRules
    \/ Return
    \/ Tick

SpecRules == InitRules /\ [][NextRules]_vars

---------------------------------------------------------------------------
(* The feature extractor over mapped, unmapped and missing values *)

\* leads that set one looked-up field to a key of its table, to "Unknown", or
\* to a value no table has
FeatureLeads ==
    {MinimalLead}
    \cup {[MinimalLead EXCEPT !.company.size = x] :
            x \in {"1-10", "11-50", "51-200", "201-1000", "1000+", "Unknown", "10000+"}}
    \cup {[MinimalLead EXCEPT !.source = x] :
            x \in {"Referral", "Website", "Social Media", "Email Campaign",
                   "Trade Show", "Advertisement", "Cold Call", "Partner", "Other",
                   "Unknown", "Billboard"}}
    \cup {[MinimalLead EXCEPT !.timeline = x] : x \in DOMAIN urgencyMap \cup {"Someday"}}
    \cup {[MinimalLead EXCEPT !.budget = x] : x \in DOMAIN budgetMap \cup {"Plenty"}}
    \cup {[MinimalLead EXCEPT !.company.industry = x] :
            x \in {"Technology", "Healthcare", "Finance", "Education",
                   "Manufacturing", "Retail", "Real Estate", "Consulting", "Media",
                   "Other", "Unknown", "Mining"}}
    \cup {[MinimalLead EXCEPT !.company.revenue = x] :
            x \in DOMAIN revenueMap \cup {"Unknown", "Plenty"}}
    \cup {[MinimalLead EXCEPT !.priority = x] :
            x \in DOMAIN priorityMap \cup {"Unknown", "Urgent"}}

InitFeatures ==
    /\ mlServiceUrl = "http://ml.internal:8000"
    /\ mlApiKey = "secret"
    /\ defaultWeights = ConstructorWeights
    /\ clock = 0
    /\ lead \in FeatureLeads
    /\ leads = <<>>
    /\ op = "idle"
    /\ pc = "START"
    /\ path = <<>>
    /\ mlRequests = <<>>
    /\ mlReplies = <<>>
    /\ evalAt = NoTime
    /\ ret = Pending
    /\ prev = NoPrev
    /\ calls = NoCalls
    /\ ctl = NoController
    /\ auth = NoAuth

NextFeatures ==
    \/ CalculateLeadScore
    \/ \E r \in ScoreReplies : ScoreReply(r)
    \/ Return

SpecFeatures == InitFeatures /\ [][NextFeatures]_vars

---------------------------------------------------------------------------
(* LeadController: updateLead and addInteraction on one stored lead *)

\* score.factors as the schema stores it: name, weight and score of each factor
StoredFactors(fs) ==
    [i \in 1..Len(fs) |->
        [name |-> fs[i].name, weight |-> fs[i].weight, score |-> fs[i].score]]

\* the stored document after lead.updateScore(score.value, score.factors):
\* save() rejects a score.value outside the schema's min 0 and max 100, and
\* the stored document stays as it was
updateScore(doc, score) ==
    IF score.value >= 0 /\ score.value <= 100
    THEN [doc EXCEPT !.score = [value |-> score.value,
                                factors |-> StoredFactors(score.factors)]]
    ELSE doc

\* the stored document after Object.assign(lead, body) and lead.save(): each
\* key of the body that is a path of the schema replaces the stored value
ObjectAssign(doc, body) ==
    [status |-> IF "status" \in DOMAIN body THEN body.status ELSE doc.status,
     score |-> IF "score" \in DOMAIN body THEN body.score ELSE doc.score,
     lead |-> [f \in DOMAIN doc.lead |->
                  IF f \in DOMAIN body /\ f # "jobTitle" THEN body[f] ELSE doc.lead[f]]]

scoreRelevantFields == {"status", "company", "budget", "timeline", "decisionMaker"}

\* the request bodies of updateLead
UpdateBodies ==
    {[status |-> "Qualified"], [budget |-> "$500K+"], [timeline |-> "Immediate"],
     [decisionMaker |-> "true"], [company |-> HotLead.company],
     [source |-> "Referral"], [priority |-> "Critical"], [jobTitle |-> T_CEO],
     [notes |-> "called back"], [priority |-> "High", status |-> "Contacted"],
     [score |-> [value |-> 99, factors |-> <<>>]]}

\* what the ML service answers a controller's scoring request with
ControllerReplies ==
    {Timeout, Http(200, [score |-> NumScore(874), factors |-> MLFactors]),
     Http(200, [score |-> NumScore(1500), factors |-> MLFactors])}

\* PUT /api/leads/:id with a body: the lead is loaded, the body assigned and
\* saved; when the body names a score-relevant field the score is computed and
\* saved (the ML request is posted when the service is configured); then the
\* response is sent
UpdateLead(body) ==
    /\ ctl.pc = "idle"
    /\ LET saved == ObjectAssign(ctl.doc, body)
           req == [ctl EXCEPT !.op = "updateLead", !.body = body, !.doc = saved,
                              !.before = ctl.doc.score]
       IN  IF scoreRelevantFields \cap DOMAIN body = {}
           THEN /\ ctl' = [req EXCEPT !.pc = "responded"]
                /\ UNCHANGED mlRequests
           ELSE IF MLConfigured
           THEN /\ ctl' = [req EXCEPT !.pc = "scoring"]
                /\ mlRequests' = <<ScoreRequest(saved.lead, clock)>>
           ELSE LET c == CatchToDefault(
                            calculateScoreWithRules(saved.lead, defaultWeights, clock))
                IN  /\ ctl' = [req EXCEPT !.pc = "responded", !.computed = c,
                                          !.doc = updateScore(saved, c.value)]
                    /\ UNCHANGED mlRequests
    /\ UNCHANGED <<calls, auth, mlServiceUrl, mlApiKey, defaultWeights, clock, lead, leads,
                   op, pc, path, mlReplies, evalAt, ret, prev>>

\* the scoring request of updateLead settles with r: the score is saved (a
\* failure to save it is logged and dropped) and the response is sent
UpdateLeadScored(r) ==
    /\ ctl.pc = "scoring"
    /\ CanSettle(mlRequests[1], r)
    /\ mlReplies' = Append(mlReplies, r)
    /\ LET c == CatchToDefault(AfterScoreReply(r, ctl.doc.lead, defaultWeights, clock))
       IN  ctl' = [ctl EXCEPT !.pc = "responded", !.computed = c,
                              !.doc = updateScore(ctl.doc, c.value)]
    /\ UNCHANGED <<calls, auth, mlServiceUrl, mlApiKey, defaultWeights, clock, lead, leads,
                   op, pc, path, mlRequests, evalAt, ret, prev>>

\* POST /api/leads/:id/interactions: the interaction, dated now when the body
\* has no date, is pushed and the lead saved
AddInteraction(data) ==
    /\ ctl.pc = "idle"
    /\ Len(ctl.doc.lead.interactions.items) < MaxInteractions
    /\ ctl' = [ctl EXCEPT
                 !.pc = "responded", !.op = "addInteraction", !.body = [interaction |-> data],
                 !.before = ctl.doc.score,
                 !.doc.lead.interactions =
                     Arr(Append(ctl.doc.lead.interactions.items,
                                [outcome |-> data.outcome, date |-> clock]))]
    /\ UNCHANGED <<calls, auth, mlServiceUrl, mlApiKey, defaultWeights, clock, lead, leads,
                   op, pc, path, mlRequests, mlReplies, evalAt, ret, prev>>

\* the stored lead: one of three leads, never scored or scored before
InitController ==
    /\ mlServiceUrl \in {UNDEFINED, "http://ml.internal:8000"}
    /\ mlApiKey = "secret"
    /\ defaultWeights = ConstructorWeights
    /\ clock = 0
    /\ lead = MinimalLead
    /\ leads = <<>>
    /\ op = "idle"
    /\ pc = "START"
    /\ path = <<>>
    /\ mlRequests = <<>>
    /\ mlReplies = <<>>
    /\ evalAt = NoTime
    /\ ret = Pending
    /\ prev = NoPrev
    /\ calls = NoCalls
    /\ ctl \in {Stored([status |-> "New", score |-> s, lead |-> AsDocument(l)]) :
                  l \in {MinimalLead, HotLead, ColdLead},
                  s \in {[value |-> 0, factors |-> <<>>],
                         [value |-> 42, factors |-> StoredFactors(MLFactors)]}}
    /\ auth = NoAuth

NextController ==
    \/ \E body \in UpdateBodies : UpdateLead(body)
    \/ \E r \in ControllerReplies : UpdateLeadScored(r)
    \/ \E data \in InteractionItems : AddInteraction(data)

SpecController == InitController /\ [][NextController]_vars

---------------------------------------------------------------------------
(* AuthController: login and refreshToken requests on one user, interleaved at
   their awaits. The clock counts seconds. *)

\* the virtual isLocked of a user document at time now
isLocked(u, now) == u.lockUntil # NoTime /\ u.lockUntil > now

\* the stored user after incLoginAttempts() of a document loaded as snap: what
\* to update is decided on the loaded document, and updateOne applies it to
\* the stored one ($inc adds to the stored counter)
incLoginAttempts(stored, snap, now) ==
    IF snap.lockUntil # NoTime /\ snap.lockUntil < now
    THEN [stored EXCEPT !.lockUntil = NoTime, !.loginAttempts = 1]
    ELSE [stored EXCEPT
            !.loginAttempts = @ + 1,
            !.lockUntil = IF snap.loginAttempts + 1 >= MaxLoginAttempts /\ ~isLocked(snap, now)
                          THEN now + LockSeconds ELSE @]

\* $unset of loginAttempts and lockUntil: the counter reads as its default 0
resetLoginAttempts(stored) == [stored EXCEPT !.loginAttempts = 0, !.lockUntil = NoTime]

\* the refresh token generateTokens signs at time now
generateTokens(now) == Token(now)

\* the user document a query loads: refreshTokens.token is not selected
Load(stored) ==
    [stored EXCEPT !.refreshTokens = [k \in 1..Len(@) |-> [sel |-> FALSE, iat |-> 0]]]

\* save() of a document whose refreshTokens array was assigned as a whole
\* (array toks): the update carries the version the document was loaded with,
\* and is rejected when the stored version has moved on
SaveArray(stored, snap, toks) ==
    IF stored.v = snap.v
    THEN [ok |-> TRUE, user |-> [stored EXCEPT !.refreshTokens = toks, !.v = @ + 1]]
    ELSE [ok |-> FALSE, user |-> stored]

\* this.refreshTokens.filter(rt => rt.token !== token), on the loaded array
removeRefreshToken(toks, token) ==
    SelectSeq(toks, LAMBDA rt : ~(rt.sel /\ rt.iat = token.iat))

\* addRefreshToken on a document loaded as snap: the token is pushed; an array
\* longer than 5 is replaced by its last 5 and saved as a whole, otherwise the
\* save pushes the one new element onto the stored array
addRefreshToken(stored, snap, token) ==
    LET mem == Append(snap.refreshTokens, token) IN
    IF Len(mem) > KeepTokens
    THEN SaveArray(stored, snap, SubSeq(mem, Len(mem) - KeepTokens + 1, Len(mem)))
    ELSE [ok |-> TRUE,
          user |-> [stored EXCEPT !.refreshTokens = Append(@, token), !.v = @ + 1]]

\* login, up to the password check: the user is loaded; a locked account is
\* answered 423
LoginFind(i) ==
    /\ auth.reqs[i].kind = "login" /\ auth.reqs[i].pc = "new"
    /\ LET snap == Load(auth.user) IN
       auth' = [auth EXCEPT
                  !.reqs[i].snap = snap,
                  !.reqs[i].pc = IF isLocked(snap, clock) THEN "done" ELSE "found",
                  !.reqs[i].status = IF isLocked(snap, clock) THEN 423 ELSE 0]
    /\ UNCHANGED <<calls, ctl, mlServiceUrl, mlApiKey, defaultWeights, clock, lead, leads,
                   op, pc, path, mlRequests, mlReplies, evalAt, ret, prev>>

\* login, after comparePassword: a wrong password counts an attempt and is
\* answered 401; the right one resets the counter when the loaded one is not 0
LoginPassword(i) ==
    /\ auth.reqs[i].kind = "login" /\ auth.reqs[i].pc = "found"
    /\ LET snap == auth.reqs[i].snap IN
       IF auth.reqs[i].password = "wrong"
       THEN auth' = [auth EXCEPT
                       !.user = incLoginAttempts(auth.user, snap, clock),
                       !.reqs[i].pc = "done", !.reqs[i].status = 401]
       ELSE auth' = [auth EXCEPT
                       !.user = IF snap.loginAttempts > 0
                                THEN resetLoginAttempts(auth.user) ELSE auth.user,
                       !.reqs[i].pc = "checked"]
    /\ UNCHANGED <<calls, ctl, mlServiceUrl, mlApiKey, defaultWeights, clock, lead, leads,
                   op, pc, path, mlRequests, mlReplies, evalAt, ret, prev>>

\* login, the end: the tokens are signed and the refresh token stored; 200, or
\* 500 when the save is rejected
LoginTokens(i) ==
    /\ auth.reqs[i].kind = "login" /\ auth.reqs[i].pc = "checked"
    /\ LET s == addRefreshToken(auth.user, auth.reqs[i].snap, generateTokens(clock)) IN
       auth' = [auth EXCEPT
                  !.user = s.user,
                  !.reqs[i].issued = generateTokens(clock),
                  !.reqs[i].pc = "done",
                  !.reqs[i].status = IF s.ok THEN 200 ELSE 500]
    /\ UNCHANGED <<calls, ctl, mlServiceUrl, mlApiKey, defaultWeights, clock, lead, leads,
                   op, pc, path, mlRequests, mlReplies, evalAt, ret, prev>>

\* refreshToken, up to removeRefreshToken: the user holding the token is
\* looked up (401 when there is none) and the new tokens are signed
RefreshFind(i) ==
    /\ auth.reqs[i].kind = "refresh" /\ auth.reqs[i].pc = "new"
    /\ IF \E k \in 1..Len(auth.user.refreshTokens) :
            auth.user.refreshTokens[k] = auth.reqs[i].token
       THEN auth' = [auth EXCEPT
                       !.reqs[i].snap = Load(auth.user),
                       !.reqs[i].issued = generateTokens(clock),
                       !.reqs[i].pc = "found"]
       ELSE auth' = [auth EXCEPT !.reqs[i].pc = "done", !.reqs[i].status = 401]
    /\ UNCHANGED <<calls, ctl, mlServiceUrl, mlApiKey, defaultWeights, clock, lead, leads,
                   op, pc, path, mlRequests, mlReplies, evalAt, ret, prev>>

\* refreshToken, removeRefreshToken(T): the filtered array is assigned and the
\* document saved. An array the filter left as it was is written as a whole
\* or not written (written: the assignment counts as a change of the path);
\* a rejected save is answered 401
RefreshRemove(i, written) ==
    /\ auth.reqs[i].kind = "refresh" /\ auth.reqs[i].pc = "found"
    /\ LET snap == auth.reqs[i].snap
           toks == removeRefreshToken(snap.refreshTokens, auth.reqs[i].token)
           s == IF written \/ toks # snap.refreshTokens
                THEN SaveArray(auth.user, snap, toks)
                ELSE [ok |-> TRUE, user |-> auth.user]
       IN  auth' = [auth EXCEPT
                      !.user = s.user,
                      !.reqs[i].snap = [snap EXCEPT !.refreshTokens = toks, !.v = s.user.v],
                      !.reqs[i].pc = IF s.ok THEN "removed" ELSE "done",
                      !.reqs[i].status = IF s.ok THEN 0 ELSE 401]
    /\ UNCHANGED <<calls, ctl, mlServiceUrl, mlApiKey, defaultWeights, clock, lead, leads,
                   op, pc, path, mlRequests, mlReplies, evalAt, ret, prev>>

\* refreshToken, addRefreshToken(newRefreshToken): 200, or 401 when the save
\* is rejected
RefreshAdd(i) ==
    /\ auth.reqs[i].kind = "refresh" /\ auth.reqs[i].pc = "removed"
    /\ LET s == addRefreshToken(auth.user, auth.reqs[i].snap, auth.reqs[i].issued) IN
       auth' = [auth EXCEPT
                  !.user = s.user,
                  !.reqs[i].pc = "done",
                  !.reqs[i].status = IF s.ok THEN 200 ELSE 401]
    /\ UNCHANGED <<calls, ctl, mlServiceUrl, mlApiKey, defaultWeights, clock, lead, leads,
                   op, pc, path, mlRequests, mlReplies, evalAt, ret, prev>>

\* time passes until the lock has just expired
LockExpires ==
    /\ auth.user.lockUntil # NoTime /\ clock <= auth.user.lockUntil
    /\ clock' = auth.user.lockUntil + 1
    /\ UNCHANGED <<calls, ctl, auth, mlServiceUrl, mlApiKey, defaultWeights, lead, leads,
                   op, pc, path, mlRequests, mlReplies, evalAt, ret, prev>>

\* a user with some failed attempts (locked at the fifth) who holds the
\* refresh token signed in this second, alone or after four older ones; and
\* NReq requests: logins with the wrong or the right password, refreshes with
\* that token
InitAuth ==
    /\ mlServiceUrl = UNDEFINED
    /\ mlApiKey = UNDEFINED
    /\ defaultWeights = ConstructorWeights
    /\ clock = 0
    /\ lead = MinimalLead
    /\ leads = <<>>
    /\ op = "idle"
    /\ pc = "START"
    /\ path = <<>>
    /\ mlRequests = <<>>
    /\ mlReplies = <<>>
    /\ evalAt = NoTime
    /\ ret = Pending
    /\ prev = NoPrev
    /\ calls = NoCalls
    /\ ctl = NoController
    /\ \E n \in {0, 3, 4, 5},
          toks \in {<<Token(0)>>,
                    <<Token(0 - 4), Token(0 - 3), Token(0 - 2), Token(0)>>} :
         auth \in
           [user : {[loginAttempts |-> n,
                     lockUntil |-> IF n >= MaxLoginAttempts THEN LockSeconds ELSE NoTime,
                     refreshTokens |-> toks, v |-> 0]},
            reqs : [1..NReq ->
                      [kind : {"login"}, password : {"wrong", "right"},
                       token : {Token(0)}, pc : {"new"}, status : {0},
                       snap : {NoAuth.user}, issued : {Token(0)}]
                      \cup
                      [kind : {"refresh"}, password : {"none"},
                       token : {Token(0)}, pc : {"new"}, status : {0},
                       snap : {NoAuth.user}, issued : {Token(0)}]]]

NextAuth ==
    \/ \E i \in 1..NReq :
          \/ LoginFind(i)
          \/ LoginPassword(i)
          \/ LoginTokens(i)
          \/ RefreshFind(i)
          \/ \E written \in BOOLEAN : RefreshRemove(i, written)
          \/ RefreshAdd(i)
    \/ Tick
    \/ LockExpires

SpecAuth == InitAuth /\ [][NextAuth]_vars

---------------------------------------------------------------------------
(* Properties *)

\* the call has entered block b
InPath(b) == \E i \in 1..Len(path) : path[i] = b

\* the call's ML request settled, with r
Settled == mlReplies # <<>>

\* r is a network error, a timeout or a response with a status outside 2xx
RequestFailed(r) ==
    r.kind \in {"network", "timeout"} \/ (r.kind = "http" /\ r.status \notin 200..299)

\* r is a 2xx response whose body has a score that is a number in [0,100]
WellFormedScore(r) ==
    /\ r.kind = "http" /\ r.status \in 200..299
    /\ r.data.type = "object"
    /\ "score" \in DOMAIN r.data.body
    /\ r.data.body.score.type = "number"
    /\ r.data.body.score.tenths >= 0
    /\ r.data.body.score.tenths <= 1000

\* what a direct call of the rule-based scorer gives for the held lead at the
\* time the call's rule-based computation ran
DirectRules == calculateScoreWithRules(lead, defaultWeights, evalAt)

\* C1: calculateLeadScore never raises to its caller: under every configuration,
\* for every lead and every outcome of the ML request, a finished call has
\* returned an object with a value and factors.
C1_NeverRaises ==
    op = "single" =>
        /\ ret.status # "raised"
        /\ pc = "END" =>
            /\ ret.status = "returned"
            /\ {"value", "factors"} \subseteq DOMAIN ret.value

\* a call on a lead whose rule-based scoring throws, after a failed ML request,
\* has returned
C1_Witness ==
    /\ op = "single" /\ pc = "END"
    /\ Settled /\ RequestFailed(mlReplies[1])
    /\ scoreDemographicsThrows(lead)
    /\ ret.status = "returned"

\* C2: the value of every result calculateLeadScore returns is an integer in
\* [0,100], whatever score the ML service answered.
C2_ValueInRange ==
    (op = "single" /\ pc = "END" /\ ret.status = "returned") =>
        ret.value.value \in 0..100

\* C3: with mlServiceUrl unset, calculateLeadScore posts no ML request and goes
\* to the rule-based computation; on every lead for which a direct call of the
\* rule-based scorer returns, it returns that very result, whose method is
\* "rule-based".
C3_UnsetUrlIsRuleBased ==
    (op = "single" /\ ~Truthy(mlServiceUrl)) =>
        /\ mlRequests = <<>>
        /\ ~InPath("ML_ATTEMPT")
        /\ pc = "END"
        /\ InPath("RULES")
        /\ DirectRules.status = "returned" =>
            /\ ret = DirectRules
            /\ ret.value.method = "rule-based"

\* an API key is set, the URL is not, and the call returned a rule-based result
C3_Witness ==
    /\ op = "single" /\ pc = "END"
    /\ ~Truthy(mlServiceUrl) /\ Truthy(mlApiKey)
    /\ ret.status = "returned"
    /\ Get(ret.value, "method") = "rule-based"
    /\ lead = HotLead

\* C4: with the ML service configured, when the single-record request fails by
\* network error, timeout or a status outside 2xx, calculateLeadScore raises
\* nothing and returns what the rule-based scorer gives for the same lead.
C4_FailedRequestFallsBack ==
    (op = "single" /\ pc = "END" /\ Settled /\ RequestFailed(mlReplies[1])) =>
        /\ ret.status = "returned"
        /\ DirectRules.status = "returned" => ret = DirectRules

\* an HTTP 500 answer that carries a score, a day after the call began, and the
\* rule-based result returned
C4_Witness ==
    /\ op = "single" /\ pc = "END" /\ Settled
    /\ mlReplies[1].kind = "http" /\ mlReplies[1].status = 500
    /\ mlReplies[1].data.type = "object"
    /\ evalAt > 0
    /\ ret.status = "returned"
    /\ Get(ret.value, "method") = "rule-based"

\* C5: when the ML service answers 2xx without a score that is a number in
\* [0,100] (no score, a score that is not a number, a score out of range), the
\* call returns the rule-based result for the lead instead of an ML result.
C5_InvalidScoreFallsBack ==
    (/\ op = "single" /\ pc = "END" /\ Settled
     /\ ~RequestFailed(mlReplies[1])
     /\ ~WellFormedScore(mlReplies[1])
     /\ ~scoreDemographicsThrows(lead)) =>
        /\ InPath("RULES")
        /\ ret = DirectRules

\* C6: with the ML service configured, when the batch request fails,
\* batchCalculateScores returns, raising nothing, one result per input lead,
\* each with method "rule-based" and equal to the rule-based scoring of the
\* lead at the same position.
C6_BatchFailureFallsBack ==
    (op = "batch" /\ pc = "END" /\ Settled /\ RequestFailed(mlReplies[1])) =>
        /\ ret.status = "returned"
        /\ Len(ret.value.items) = Len(leads)
        /\ \A i \in 1..Len(leads) :
            /\ Get(ret.value.items[i], "method") = "rule-based"
            /\ \E t \in 0..MaxDay :
                LET d == calculateScoreWithRules(leads[i], defaultWeights, t) IN
                /\ d.status = "returned"
                /\ ret.value.items[i].value = d.value.value
                /\ ret.value.items[i].factors = d.value.factors

\* C7: whenever the rule-based computation raises during calculateLeadScore,
\* reached directly or after an ML failure, the call returns the fixed default
\* result: value 50 and exactly one factor, named "default", of weight 1.0.
C7_RulesErrorGivesDefault ==
    (op = "single" /\ pc = "END" /\ InPath("RULES") /\ DirectRules.status = "raised") =>
        /\ ret.status = "returned"
        /\ DOMAIN ret.value = {"value", "factors"}
        /\ ret.value.value = 50
        /\ Len(ret.value.factors) = 1
        /\ ret.value.factors[1].name = "default"
        /\ ret.value.factors[1].weight = 100

\* the rule-based computation raised after the ML service answered without a
\* score, and the call is at its end
C7_Witness ==
    /\ op = "single" /\ pc = "END"
    /\ Settled /\ ~RequestFailed(mlReplies[1])
    /\ InPath("RULES") /\ InPath("DEFAULT")
    /\ DirectRules.status = "raised"

\* C8: when the ML service answers 2xx with a score that is a number in
\* [0,100], the result has value = round(score), the response's factors (or an
\* empty sequence), its model_version and confidence unchanged, and method "ml".
C8_MLResultShape ==
    (op = "single" /\ pc = "END" /\ Settled /\ WellFormedScore(mlReplies[1])) =>
        LET body == mlReplies[1].data.body IN
        /\ ret.status = "returned"
        /\ ret.value.value = (body.score.tenths + 5) \div 10
        /\ ret.value.factors = (IF "factors" \in DOMAIN body THEN body.factors ELSE <<>>)
        /\ Get(ret.value, "model_version") = Get(body, "model_version")
        /\ Get(ret.value, "confidence") = Get(body, "confidence")
        /\ Get(ret.value, "method") = "ml"

\* the results the rule-based scorer produced for the finished call
RuleResults ==
    IF pc = "END" /\ ret.status = "returned" /\ InPath("RULES") /\ ~InPath("DEFAULT")
    THEN IF op = "batch" THEN {ret.value.items[i] : i \in 1..Len(ret.value.items)}
         ELSE {ret.value}
    ELSE {}

\* C9: every result of the rule-based scorer has exactly four factors, named
\* demographic, behavioral, firmographic, engagement in this order, with weights
\* 0.25, 0.30, 0.25, 0.20, which sum to 1.0.
C9_FourFactorsSumToOne ==
    \A res \in RuleResults :
        /\ Len(res.factors) = 4
        /\ [i \in 1..4 |-> res.factors[i].name]
             = <<"demographic", "behavioral", "firmographic", "engagement">>
        /\ [i \in 1..4 |-> res.factors[i].weight] = <<25, 30, 25, 20>>
        /\ res.factors[1].weight + res.factors[2].weight
             + res.factors[3].weight + res.factors[4].weight = 100

\* a batch of two leads scored by the rules
C9_Witness ==
    /\ op = "batch" /\ pc = "END"
    /\ Cardinality(RuleResults) = 2

InsightsDone == op = "insights" /\ pc = "END" /\ ret.status = "returned"

\* the scores of the factors of an insights object, in order
FactorScores(ins) == [i \in 1..Len(ins.factors) |-> ins.factors[i].score]

\* C11 as stated: for a lead with only identity fields set the rule-based path
\* gives all four sub-scores equal to 50 and a final value of 50, and
\* getScoreInsights reports grade "D".
C11_MinimalLeadAllFifty ==
    (InsightsDone /\ ~MLConfigured /\ lead = MinimalLead) =>
        /\ FactorScores(ret.value) = <<50, 50, 50, 50>>
        /\ ret.value.score = 50
        /\ ret.value.grade = "D"

\* C11 amended: for a lead with only identity fields set the rule-based path
\* gives demographic, firmographic and engagement sub-scores of 50 and a
\* behavioral sub-score of 45 (unknown source +5, unknown timeline -5, unknown
\* budget -5), a final value of 49, and getScoreInsights reports grade "F".
C11_MinimalLeadScore ==
    (InsightsDone /\ ~MLConfigured /\ lead = MinimalLead) =>
        /\ FactorScores(ret.value) = <<50, 45, 50, 50>>
        /\ ret.value.score = 49
        /\ ret.value.grade = "F"

C11_Witness ==
    /\ InsightsDone /\ ~MLConfigured /\ lead = MinimalLead
    /\ path = <<"START", "RULES", "END">>
    /\ Len(ret.value.factors) = 4

\* C12: for every integer score in [0,100] the grade getScoreInsights reports is
\* "A+" from 90, "A" from 80, "B" from 70, "C" from 60, "D" from 50 and "F"
\* below; 90 is A+, 89 A, 79 B, 69 C, 59 D and 49 F.
C12_GradeMapping ==
    (InsightsDone /\ ret.value.score \in 0..100) =>
        LET s == ret.value.score
            g == ret.value.grade
        IN  /\ g = "A+" <=> s \in 90..100
            /\ g = "A" <=> s \in 80..89
            /\ g = "B" <=> s \in 70..79
            /\ g = "C" <=> s \in 60..69
            /\ g = "D" <=> s \in 50..59
            /\ g = "F" <=> s \in 0..49
            /\ s = 90 => g = "A+"
            /\ s = 89 => g = "A"
            /\ s = 79 => g = "B"
            /\ s = 69 => g = "C"
            /\ s = 59 => g = "D"
            /\ s = 49 => g = "F"

C12_Witness ==
    /\ InsightsDone /\ Settled /\ HasScore(mlReplies[1])
    /\ ret.value.score = 90 /\ ret.value.grade = "A+"

\* the lead has zero interactions: an empty sequence, or none recorded at all
ZeroInteractions(l) ==
    l.interactions.type # "array" \/ Len(l.interactions.items) = 0

\* C13: the recommendation list holds exactly the recommendations whose rule
\* applies, in the fixed order: priority-contact (score >= 80),
\* identify-decision-maker (decisionMaker not set), clarify-timeline (timeline
\* unset or "Unknown"), understand-budget (budget unset or "Unknown"),
\* initiate-first-contact (zero interactions).
C13_RecommendationsExact ==
    InsightsDone =>
        ret.value.recommendations =
            (IF ret.value.score >= 80 THEN <<RecPriority>> ELSE <<>>)
            \o (IF lead.decisionMaker # "true" THEN <<RecDecisionMaker>> ELSE <<>>)
            \o (IF lead.timeline \in {UNDEFINED, "Unknown"} THEN <<RecTimeline>> ELSE <<>>)
            \o (IF lead.budget \in {UNDEFINED, "Unknown"} THEN <<RecBudget>> ELSE <<>>)
            \o (IF ZeroInteractions(lead) THEN <<RecFirstContact>> ELSE <<>>)

\* how many times block b is in the path of the call
Entered(b) == Cardinality({i \in 1..Len(path) : path[i] = b})

C16_BatchRulesNeverRaise ==
    (op = "batch" /\ pc = "END" /\ InPath("RULES")) =>
        /\ ret.status = "returned"
        /\ Len(ret.value.items) = Len(leads)
        /\ \A i \in 1..Len(leads) :
            LET c == calculateScoreWithRules(leads[i], defaultWeights, evalAt) IN
            ret.value.items[i] = WithLeadId(leads[i], IF c.status = "raised"
                                                  THEN DefaultResult ELSE c.value)

\* the job-title bonus with the tiers checked in the order CEO, VP, director
TitleBonusVPFirst(chars) ==
    LET title == toLowerCase(chars) IN
    IF includes(title, kw_ceo) \/ includes(title, kw_founder)
            \/ includes(title, kw_president) THEN 20
    ELSE IF includes(title, kw_vp) \/ includes(title, kw_vice_president) THEN 18
    ELSE IF includes(title, kw_director) \/ includes(title, kw_manager)
            \/ includes(title, kw_head) THEN 15
    ELSE 0

\* C19: in the demographic sub-score the job-title tiers are checked in the
\* order CEO-tier (+20), VP-tier (+18), director-tier (+15), by case-insensitive
\* substring match, and only the first matching tier contributes; a title with
\* a VP-tier word and a director-tier word (and no CEO-tier word) gets +18.
C19_TitleTierOrder ==
    \A r \in RuleResults :
        (op # "batch" /\ lead.jobTitle.type = "string"
            /\ lead.decisionMaker # "true" /\ ~Truthy(lead.company.size)) =>
                r.factors[1].score = 50 + TitleBonusVPFirst(lead.jobTitle.chars)

\* the names of the features of a vector
FeatureNames ==
    {"has_job_title", "is_decision_maker", "company_size_numeric", "source_score",
     "timeline_urgency", "budget_numeric", "industry_score", "revenue_numeric",
     "has_company_name", "interaction_count", "positive_interactions",
     "days_since_creation", "priority_numeric", "has_phone", "has_notes",
     "tag_count"}

C20_WeightedValue ==
    \A r \in RuleResults :
        LET d == r.factors[1].score
            b == r.factors[2].score
            f == r.factors[3].score
            e == r.factors[4].score
            t == Max(0, Min(100 * 100, 25 * d + 30 * b + 25 * f + 20 * e))
        IN  /\ {d, b, f, e} \subseteq 0..100
            /\ 100 * r.value - 50 <= t
            /\ t < 100 * r.value + 50
            /\ op # "batch" =>
                /\ d = scoreDemographics(lead)
                /\ b = scoreBehavior(lead)
                /\ f = scoreFirmographics(lead)
                /\ e = scoreEngagement(lead, evalAt)

\* the hot lead: a behavioral sub-score clamped from 120 to 100
C20_Witness ==
    /\ op = "rules" /\ pc = "END" /\ lead = HotLead
    /\ ret.status = "returned"
    /\ ret.value.factors[2].score = 100
    /\ 50 + sourceBonus(lead) + timelineBonus(lead) + budgetBonus(lead) > 100
    /\ ret.value.value \in 90..100

\* C18: if every outbound ML request eventually answers or hits its timeout,
\* every calculateLeadScore call and every batchCalculateScores call eventually
\* hands control back to its caller, even when the ML service never answers.
C18_CallsTerminate == (op \in {"single", "batch"}) ~> (pc = "END")

\* a call that got no answer, timed out and returned
C18_Witness ==
    /\ op = "single" /\ pc = "END"
    /\ mlReplies = <<Timeout>>
    /\ mlRequests[1].timeout = 10000
    /\ ret.status = "returned"

\* what call i returns when it runs alone on a freshly constructed service, given
\* the same answer of the ML service
SoloResult(i) ==
    CatchToDefault(
        IF Truthy(mlServiceUrl) /\ Truthy(mlApiKey)
        THEN AfterScoreReply(calls[i].reply, calls[i].lead, ConstructorWeights, clock)
        ELSE calculateScoreWithRules(calls[i].lead, ConstructorWeights, clock))

AllCallsAsAlone ==
    \A i \in DOMAIN calls : calls[i].pc = "END" => calls[i].ret = SoloResult(i)

\* C15: for calls running concurrently on the shared service instance, under
\* every interleaving of their steps and of the ML responses, each call returns
\* the result it would return when run alone, and no step of a scoring call
\* writes the weights, mlServiceUrl or mlApiKey.
C15_Reentrant ==
    /\ []AllCallsAsAlone
    /\ [][UNCHANGED <<mlServiceUrl, mlApiKey, defaultWeights>>]_vars

\* two calls in flight together have both returned, one after a timeout, the
\* other on the service's answer
C15_Witness ==
    /\ DOMAIN calls = 1..NCalls
    /\ \A i \in 1..NCalls : calls[i].pc = "END"
    /\ calls[1].lead = HotLead /\ calls[2].lead = MinimalLead
    /\ calls[1].reply = Timeout
    /\ calls[2].reply = Http(200, [score |-> NumScore(874)])
    /\ calls[1].ret.value.value # calls[2].ret.value.value

\* a direct call of the rule-based scorer that returned
RulesDone == op = "rules" /\ pc = "END" /\ ret.status = "returned"

\* the interactions of the held lead, none when the field is absent
LeadInteractions ==
    IF lead.interactions.type = "array" THEN lead.interactions.items ELSE <<>>

C22_BehavioralScore ==
    RulesDone =>
        LET s == CASE lead.source = "Referral" -> 20
                   [] lead.source = "Website" -> 15
                   [] lead.source = "Social Media" -> 10
                   [] lead.source = "Email Campaign" -> 8
                   [] lead.source = "Cold Call" -> 0 - 5
                   [] OTHER -> 5
            t == CASE lead.timeline = "Immediate" -> 25
                   [] lead.timeline = "1-3 months" -> 20
                   [] lead.timeline = "3-6 months" -> 10
                   [] lead.timeline = "6-12 months" -> 5
                   [] OTHER -> 0 - 5
            b == CASE lead.budget = "$500K+" -> 25
                   [] lead.budget = "$100K-$500K" -> 20
                   [] lead.budget = "$50K-$100K" -> 15
                   [] lead.budget = "$10K-$50K" -> 10
                   [] lead.budget = "<$10K" -> 5
                   [] OTHER -> 0 - 5
            raw == 50 + s + t + b
            score == ret.value.factors[2].score
        IN  /\ ret.value.factors[2].name = "behavioral"
            /\ score = (IF raw > 100 THEN 100 ELSE IF raw < 0 THEN 0 ELSE raw)
            /\ (lead.source = "Cold Call" /\ lead.timeline = UNDEFINED
                    /\ lead.budget = UNDEFINED) => score = 35

C22_Witness ==
    /\ RulesDone
    /\ lead.source = "Cold Call" /\ lead.timeline = UNDEFINED /\ lead.budget = UNDEFINED
    /\ ret.value.factors[2].score = 35

\* the title matches the VP tier and the director tier and not the CEO tier:
\* the case in which the order of the tier checks matters
TitleTiersOverlap(chars) ==
    LET title == toLowerCase(chars) IN
    /\ ~(includes(title, kw_ceo) \/ includes(title, kw_founder)
            \/ includes(title, kw_president))
    /\ includes(title, kw_vp) \/ includes(title, kw_vice_president)
    /\ includes(title, kw_director) \/ includes(title, kw_manager)
            \/ includes(title, kw_head)

\* C23: the demographic sub-score equals clamp(50 + titleBonus + (15 if
\* decisionMaker) + sizeBonus, 0, 100) with sizeBonus +15 for 1000+, +12 for
\* 201-1000, +8 for 51-200, +5 for 11-50 and 0 otherwise (titleBonus the bonus
\* of the one tier the title matches); for jobTitle "CEO", decisionMaker true,
\* company.size "1000+" it is 100 and contributes 25.0 to the weighted sum.
C23_DemographicScore ==
    (RulesDone /\ ~TitleTiersOverlap(lead.jobTitle.chars)) =>
        LET title == IF lead.jobTitle.type = "string"
                     THEN TitleBonusVPFirst(lead.jobTitle.chars) ELSE 0
            dm == IF lead.decisionMaker = "true" THEN 15 ELSE 0
            size == CASE lead.company.size = "1000+" -> 15
                      [] lead.company.size = "201-1000" -> 12
                      [] lead.company.size = "51-200" -> 8
                      [] lead.company.size = "11-50" -> 5
                      [] OTHER -> 0
            raw == 50 + title + dm + size
            factor == ret.value.factors[1]
        IN  /\ factor.name = "demographic"
            /\ factor.score = (IF raw > 100 THEN 100 ELSE IF raw < 0 THEN 0 ELSE raw)
            /\ (lead.jobTitle = T_CEO /\ lead.decisionMaker = "true"
                    /\ lead.company.size = "1000+") =>
                        factor.score = 100 /\ factor.score * factor.weight = 2500

C23_Witness ==
    /\ RulesDone
    /\ lead.jobTitle = T_CEO /\ lead.decisionMaker = "true"
    /\ lead.company.size = "1000+"
    /\ ret.value.factors[1].score = 100

\* the firmographic bonuses for revenue and company name
RevenueAndNameBonus ==
    (CASE lead.company.revenue = "$200M+" -> 20
       [] lead.company.revenue = "$50M-$200M" -> 15
       [] lead.company.revenue = "$10M-$50M" -> 10
       [] lead.company.revenue = "$1M-$10M" -> 5
       [] OTHER -> 0)
    + (IF lead.company.name \notin {UNDEFINED, ""} THEN 5 ELSE 0)

\* the industry bonus for an industry that is set
SetIndustryBonus ==
    CASE lead.company.industry = "Technology" -> 15
      [] lead.company.industry \in {"Healthcare", "Finance"} -> 12
      [] lead.company.industry \in {"Education", "Manufacturing"} -> 8
      [] OTHER -> 5

\* C24 as stated: the firmographic sub-score equals clamp(50 + industryBonus +
\* revenueBonus + (5 if company name is present), 0, 100), industryBonus +15
\* Technology, +12 Healthcare or Finance, +8 Education or Manufacturing and +5
\* in every other case, revenueBonus +20, +15, +10, +5 by band and 0 otherwise.
C24_FirmographicOtherAlwaysFive ==
    RulesDone =>
        LET raw == 50 + SetIndustryBonus + RevenueAndNameBonus IN
        ret.value.factors[3].score = (IF raw > 100 THEN 100 ELSE raw)

\* C24 amended: as stated, but industryBonus is +5 for any other industry that
\* is set and 0 when the lead has no industry.
C24_FirmographicScore ==
    RulesDone =>
        LET industry == IF lead.company.industry \in {UNDEFINED, ""} THEN 0
                        ELSE SetIndustryBonus
            raw == 50 + industry + RevenueAndNameBonus
        IN  /\ ret.value.factors[3].name = "firmographic"
            /\ ret.value.factors[3].score = (IF raw > 100 THEN 100 ELSE raw)

\* no industry, the highest revenue band: 70, not 75
C24_Witness ==
    /\ RulesDone
    /\ lead.company.industry = UNDEFINED /\ lead.company.revenue = "$200M+"
    /\ lead.company.name = UNDEFINED
    /\ ret.value.factors[3].score = 70

\* C25: a lead with no interactions gets the initiate-first-contact
\* recommendation whether its interactions field is an empty sequence or is
\* absent altogether.
C25_FirstContactWhenNoInteractions ==
    (InsightsDone /\ ZeroInteractions(lead)) =>
        \E i \in 1..Len(ret.value.recommendations) :
            ret.value.recommendations[i] = RecFirstContact

\* the feature vector of the request calculateLeadScore posted for the held lead
SentFeatures == mlRequests[1].features

\* company_size_numeric by its table, source_score and industry_score by theirs
\* for the keys checked here and 40 for values no table has
SizeSourceIndustryLookups ==
    /\ SentFeatures.company_size_numeric =
            (CASE lead.company.size = "1-10" -> 5
               [] lead.company.size = "11-50" -> 30
               [] lead.company.size = "51-200" -> 125
               [] lead.company.size = "201-1000" -> 600
               [] lead.company.size = "1000+" -> 5000
               [] OTHER -> 0)
    /\ lead.source \in {UNDEFINED, "Unknown", "Billboard", "Other"} =>
            SentFeatures.source_score = 40
    /\ lead.source = "Referral" => SentFeatures.source_score = 90
    /\ lead.source = "Cold Call" => SentFeatures.source_score = 30
    /\ lead.company.industry \in {UNDEFINED, "Unknown", "Mining", "Other"} =>
            SentFeatures.industry_score = 40
    /\ lead.company.industry = "Technology" => SentFeatures.industry_score = 85
    /\ lead.company.industry = "Retail" => SentFeatures.industry_score = 55

\* a mapped value gives its table entry
MappedLookups ==
    /\ lead.timeline \in DOMAIN urgencyMap =>
            SentFeatures.timeline_urgency = urgencyMap[lead.timeline]
    /\ lead.budget \in DOMAIN budgetMap =>
            SentFeatures.budget_numeric = budgetMap[lead.budget]
    /\ lead.company.revenue \in DOMAIN revenueMap =>
            SentFeatures.revenue_numeric = revenueMap[lead.company.revenue]
    /\ lead.priority \in DOMAIN priorityMap =>
            SentFeatures.priority_numeric = priorityMap[lead.priority]

C27_OneResultPerLead ==
    (op = "batch" /\ pc = "END" /\ ret.status = "returned") =>
        /\ Len(ret.value.items) = Len(leads)
        /\ \A i \in 1..Len(leads) :
            "leadId" \in DOMAIN ret.value.items[i] =>
                ret.value.items[i].leadId = leads[i]._id

\* the stored score that saving the computed result c would give
PersistedScore(c) == [value |-> c.value.value, factors |-> StoredFactors(c.value.factors)]

\* C28: when updateLead or addInteraction has responded, the stored score is
\* the newly computed one if the body of updateLead named one of status,
\* company, budget, timeline, decisionMaker, and is the score stored before
\* the request otherwise (an update of other fields, or an addInteraction)
C28_ScorePersistedIffRelevant ==
    ctl.pc = "responded" =>
        IF ctl.op = "updateLead" /\ scoreRelevantFields \cap DOMAIN ctl.body # {}
        THEN ctl.computed.status = "returned" /\ ctl.doc.score = PersistedScore(ctl.computed)
        ELSE ctl.doc.score = ctl.before

\* the stored lock, if any, is no longer in the future
LockExpired == auth.user.lockUntil # NoTime /\ auth.user.lockUntil <= clock

\* login request i is answered in this step
LoginAnswered(i) ==
    auth.reqs[i].kind = "login" /\ auth.reqs[i].pc # "done" /\ auth'.reqs[i].pc = "done"

\* C29: with login requests interleaved in any way, a stored loginAttempts of
\* 5 or more (no earlier lock having expired) comes with a lock in the future;
\* and while the account is locked no step changes the counter and every
\* login answered, whatever its password, is answered 423
C29_LockoutHolds ==
    /\ []((auth.user.loginAttempts >= MaxLoginAttempts /\ ~LockExpired)
            => isLocked(auth.user, clock))
    /\ [][isLocked(auth.user, clock) =>
            /\ auth'.user.loginAttempts = auth.user.loginAttempts
            /\ \A i \in 1..NReq : LoginAnswered(i) => auth'.reqs[i].status = 423]_vars

\* refreshToken request i was answered 200
Refreshed(i) ==
    auth.reqs[i].kind = "refresh" /\ auth.reqs[i].pc = "done" /\ auth.reqs[i].status = 200

\* the token is one of the user's stored refresh tokens
StoredToken(t) == \E k \in 1..Len(auth.user.refreshTokens) : auth.user.refreshTokens[k] = t

\* C30: a refresh token is used once: the token of a refreshToken request
\* answered 200 is no longer stored, of the requests carrying one token (one
\* after the other or together) at most one is answered 200, and the user
\* never holds more than 5 stored refresh tokens
C30_SingleUse ==
    /\ \A i \in 1..NReq : Refreshed(i) => ~StoredToken(auth.reqs[i].token)
    /\ \A i, j \in 1..NReq :
          (i # j /\ auth.reqs[i].token = auth.reqs[j].token) => ~(Refreshed(i) /\ Refreshed(j))
    /\ Len(auth.user.refreshTokens) <= KeepTokens

===========================================================================
